---- MODULE Spec2Model ----
(***************************************************************************)
(* Model of the pricing-factor import pipeline: main.py (the orchestrator), *)
(* the three reconciliation functions of scripts/ (insert_postcodes,       *)
(* insert_vehicle_factors, insert_yearly_mileage_factors) and the load     *)
(* functions load_csv, load_region_factors and                             *)
(* load_yearly_milaege_factors.                                            *)
(*                                                                         *)
(* Factors are floats in the code; here they are integers in tenths        *)
(* (1.0 is 10, 1.6 is 16).  The store is the cursor of main.py: four       *)
(* tables, each a sequence of rows in insertion order, whose id column is  *)
(* generated by the store.  Every statement sent through the cursor may    *)
(* raise; a statement that raises changes nothing.                         *)
(***************************************************************************)
EXTENDS Integers, Sequences, FiniteSets, TLC

VARIABLES
    pc,              \* position of main.py's __main__ block ("test": a direct call)
    conn,            \* "unbound" | "open" | "closed"
    cur,             \* "unbound" | "open" | "closed"
    exiting,         \* a SystemExit raised by sys.exit(1) is in flight
    exit_code,       \* -1 while the process runs, else its exit status
    db,              \* the tables as the open transaction sees them
    committed,       \* the tables as last committed
    attempted,       \* categories whose try block was entered, in order
    failed,          \* categories whose `except Exception` block ran
    commits,         \* conn.commit() calls issued in this process run
    ncalls,          \* direct calls of an import function made so far
    status,          \* of the import function: "idle" | "running" | "returned" | "raised"
    idx,             \* position of the function's for loop (1-based)
    postcode_df,     \* insert_postcodes' df: rows [region, postcode]
    region_factors,  \* insert_postcodes' region_factors: region -> factor
    vehicle_df,      \* insert_vehicle_factors' df: rows [vehicle_type, factor]
    mileage_df,      \* insert_yearly_mileage_factors' df: rows [from, to, factor]
    calls,           \* statements executed by the running function call, in order
    repeated,        \* the running call repeats the previous one, which returned
    csv,             \* the file a load function is called on
    loaded           \* what that call did: [error, value]

vars == <<pc, conn, cur, exiting, exit_code, db, committed, attempted, failed,
          commits, ncalls, status, idx, postcode_df, region_factors, vehicle_df,
          mileage_df, calls, repeated, csv, loaded>>

(***************************************************************************)
(* Bounds and input domains                                                *)
(***************************************************************************)
MaxRows == 2
MaxCalls == 2
\* longest postcode field of a one-row postcode file
MaxLen == 6

Regions == {"Bayern", "Berlin"}
Postcodes == {"80331", "10115"}
RegionFactorValues == {16}
VehicleTypes == {"SUV", "LKW"}
VehicleFactorValues == {12, 14}
MileageRanges == {<<0, 5000>>, <<5001, 100000000>>}
MileageFactorValues == {8, 15}

\* sequences over S of length 0..n
SeqsUpTo(S, n) == UNION {[1..k -> S] : k \in 0..n}

VehicleRows == [vehicle_type : VehicleTypes, factor : VehicleFactorValues]
\* load_vehicle_factors raises on an empty file: a loaded df has a row
VehicleDfs == SeqsUpTo(VehicleRows, MaxRows) \ {<<>>}
MileageRows == [range : MileageRanges, factor : MileageFactorValues]
\* load_yearly_milaege_factors raises on an empty file: a loaded df has a row
MileageDfs == SeqsUpTo(MileageRows, MaxRows) \ {<<>>}
PostcodeRows == [region : Regions, postcode : Postcodes]
PostcodeDfs == SeqsUpTo(PostcodeRows, MaxRows)
RegionFactorMaps == UNION {[S -> RegionFactorValues] : S \in SUBSET Regions}

EmptyDb == [regions |-> <<>>, postcodes |-> <<>>, vehicle |-> <<>>,
            yearly_mileage |-> <<>>]

(***************************************************************************)
(* pandas helpers                                                          *)
(***************************************************************************)
RECURSIVE Unique(_)
\* Series.unique(): the distinct values in first-seen order
Unique(s) ==
    IF s = <<>> THEN <<>>
    ELSE LET front == Unique(SubSeq(s, 1, Len(s) - 1))
             last == s[Len(s)]
         IN IF \E i \in 1..Len(front) : front[i] = last
            THEN front ELSE Append(front, last)

\* no load function has been called
NotLoaded == [error |-> "pending", value |-> <<>>]

(***************************************************************************)
(* The cursor.  A function's loop iteration is a fixed list of statements  *)
(* (its reads come before its writes to the same table); Execute runs the  *)
(* list up to and including statement number f, which raises (f = 0: no    *)
(* statement raises).                                                      *)
(***************************************************************************)
\* one cur.execute(stmt, args), as a mock's call_args_list records it
Call(stmt, args) == [stmt |-> stmt, args |-> args, ok |-> TRUE]

\* the effect of one successful statement on the tables
Apply(d, c) ==
    CASE c.stmt = "INSERT regions" ->
           [d EXCEPT !.regions = Append(@, [id |-> Len(@) + 1,
               region |-> c.args[1], region_factor |-> c.args[2]])]
      [] c.stmt = "INSERT postcodes" ->
           [d EXCEPT !.postcodes = Append(@, [id |-> Len(@) + 1,
               region_id |-> c.args[1], postcode |-> c.args[2]])]
      [] c.stmt = "INSERT vehicle" ->
           [d EXCEPT !.vehicle = Append(@, [id |-> Len(@) + 1,
               vehicle_type |-> c.args[1], vehicle_factor |-> c.args[2]])]
      [] c.stmt = "INSERT yearly_mileage" ->
           [d EXCEPT !.yearly_mileage = Append(@, [id |-> Len(@) + 1,
               yearly_mileage_from |-> c.args[1], yearly_mileage_to |-> c.args[2],
               yearly_mileage_factor |-> c.args[3]])]
      [] OTHER -> d

RECURSIVE ApplyAll(_, _)
ApplyAll(d, cs) ==
    IF cs = <<>> THEN d ELSE ApplyAll(Apply(d, Head(cs)), Tail(cs))

\* the statements of plan that ran, the last one marked as raising when f > 0
Executed(plan, f) ==
    IF f = 0 THEN plan
    ELSE Append(SubSeq(plan, 1, f - 1), [plan[f] EXCEPT !.ok = FALSE])

\* the tables after plan ran with statement f raising
Execute(d, plan, f) ==
    ApplyAll(d, IF f = 0 THEN plan ELSE SubSeq(plan, 1, f - 1))

(***************************************************************************)
(* insert_postcodes                                                        *)
(***************************************************************************)
DefaultFactor == 10

\* df["region"].unique()
regions_of(df) == Unique([i \in 1..Len(df) |-> df[i].region])

\* df[df["region"] == region]["postcode"].unique().tolist()
region_list(df, region) ==
    LET rows == SelectSeq(df, LAMBDA r : r.region = region)
    IN Unique([i \in 1..Len(rows) |-> rows[i].postcode])

\* factor_of without the default: None (here 0) goes to the INSERT
factor_of_no_default(rf, region) ==
    IF region \in DOMAIN rf THEN rf[region] ELSE 0

\* region_factors.get(region), defaulted to 1.0 when None
factor_of(rf, region) ==
    IF region \in DOMAIN rf THEN rf[region] ELSE DefaultFactor

\* select_region_id with a parameter that matches no row
select_region_id_unmatched(tbl, region) == 0

\* SELECT id FROM regions WHERE region = %s; fetchone(): 0 stands for None
select_region_id(tbl, region) ==
    IF \E i \in 1..Len(tbl) : tbl[i].region = region
    THEN tbl[CHOOSE i \in 1..Len(tbl) :
                 /\ tbl[i].region = region
                 /\ \A j \in 1..(i - 1) : tbl[j].region # region].id
    ELSE 0

\* existing_postcodes built from fetchone() instead of fetchall()
existing_postcodes_first_row(tbl) ==
    IF tbl = <<>> THEN {} ELSE {tbl[1].postcode}

\* SELECT postcode FROM postcodes; the set built from fetchall()
existing_postcodes(tbl) == {tbl[i].postcode : i \in 1..Len(tbl)}

\* the statements of the loop body for one region, in execution order
region_plan(d, df, rf, region) ==
    LET found == select_region_id(d.regions, region)
        region_id == IF found # 0 THEN found ELSE Len(d.regions) + 1
        existing == existing_postcodes(d.postcodes)
        new_postcode == SelectSeq(region_list(df, region),
                                  LAMBDA p : p \notin existing)
    IN <<Call("SELECT regions", <<region>>)>>
       \o (IF found # 0 THEN <<>>
           ELSE <<Call("INSERT regions", <<region, factor_of(rf, region)>>)>>)
       \o <<Call("SELECT postcodes", <<>>)>>
       \o [k \in 1..Len(new_postcode) |->
              Call("INSERT postcodes", <<region_id, new_postcode[k]>>)]

InPostcodes == pc \in {"insert_postcodes", "test_postcodes"}

\* one iteration of `for region in regions`; a raising statement leaves the
\* loop and the function through `except Exception: ... raise`
insert_postcodes_region ==
    /\ InPostcodes /\ status = "running"
    /\ idx <= Len(regions_of(postcode_df))
    /\ LET plan == region_plan(db, postcode_df, region_factors,
                               regions_of(postcode_df)[idx])
       IN \E f \in 0..Len(plan) :
            /\ db' = Execute(db, plan, f)
            /\ calls' = calls \o Executed(plan, f)
            /\ status' = IF f = 0 THEN "running" ELSE "raised"
            /\ idx' = IF f = 0 THEN idx + 1 ELSE idx
    /\ UNCHANGED <<pc, conn, cur, exiting, exit_code, committed, attempted,
                   failed, commits, ncalls, postcode_df, region_factors,
                   vehicle_df, mileage_df, repeated, csv, loaded>>

\* the loop is exhausted: "Import of postcodes done!"
insert_postcodes_done ==
    /\ InPostcodes /\ status = "running"
    /\ idx > Len(regions_of(postcode_df))
    /\ status' = "returned"
    /\ UNCHANGED <<pc, conn, cur, exiting, exit_code, db, committed,
                   attempted, failed, commits, ncalls, idx, postcode_df,
                   region_factors, vehicle_df, mileage_df, calls, repeated,
                   csv, loaded>>

(***************************************************************************)
(* insert_vehicle_factors                                                  *)
(***************************************************************************)
\* df["VEHICLE_TYPE"].unique()
vehicle_types(df) == Unique([i \in 1..Len(df) |-> df[i].vehicle_type])

\* vehicle_factor taking .values[-1], the last row of the type
vehicle_factor_last(df, vehicle_type) ==
    LET rows == SelectSeq(df, LAMBDA r : r.vehicle_type = vehicle_type)
    IN rows[Len(rows)].factor

\* float(df[df["VEHICLE_TYPE"] == vehicle_type]["VEHICLE_FACTOR"].values[0])
vehicle_factor(df, vehicle_type) ==
    SelectSeq(df, LAMBDA r : r.vehicle_type = vehicle_type)[1].factor

\* vehicle_exists with a query that matches no row
vehicle_exists_unmatched(tbl, vehicle_type) == FALSE

\* SELECT id FROM vehicle WHERE vehicle_type = %s; fetchone() is not None
vehicle_exists(tbl, vehicle_type) ==
    \E i \in 1..Len(tbl) : tbl[i].vehicle_type = vehicle_type

\* the statements of the loop body for one vehicle type
vehicle_plan(d, df, vehicle_type) ==
    <<Call("SELECT vehicle", <<vehicle_type>>)>>
    \o (IF vehicle_exists(d.vehicle, vehicle_type) THEN <<>>
        ELSE <<Call("INSERT vehicle",
                    <<vehicle_type, vehicle_factor(df, vehicle_type)>>)>>)

\* type_status with a try/except around the loop body that logs and goes on
type_status_isolated(f) == "running"

\* the function's status after an iteration in which statement f raised
\* (f = 0: none): the loop has no try of its own, the exception leaves the
\* function through `except Exception: ... raise`
type_status(f) == IF f = 0 THEN "running" ELSE "raised"

InVehicle == pc \in {"insert_vehicle", "test_vehicle"}

\* one iteration of `for vehicle_type in vehicle_types`; a raising statement
\* leaves the function through `except Exception: ... raise`
insert_vehicle_factors_type ==
    /\ InVehicle /\ status = "running"
    /\ idx <= Len(vehicle_types(vehicle_df))
    /\ LET plan == vehicle_plan(db, vehicle_df, vehicle_types(vehicle_df)[idx])
       IN \E f \in 0..Len(plan) :
            /\ db' = Execute(db, plan, f)
            /\ calls' = calls \o Executed(plan, f)
            /\ status' = type_status(f)
            /\ idx' = IF f = 0 THEN idx + 1 ELSE idx
    /\ UNCHANGED <<pc, conn, cur, exiting, exit_code, committed, attempted,
                   failed, commits, ncalls, postcode_df, region_factors,
                   vehicle_df, mileage_df, repeated, csv, loaded>>

\* the loop is exhausted: "Import of vehicle types done!"
insert_vehicle_factors_done ==
    /\ InVehicle /\ status = "running"
    /\ idx > Len(vehicle_types(vehicle_df))
    /\ status' = "returned"
    /\ UNCHANGED <<pc, conn, cur, exiting, exit_code, db, committed,
                   attempted, failed, commits, ncalls, idx, postcode_df,
                   region_factors, vehicle_df, mileage_df, calls, repeated,
                   csv, loaded>>

(***************************************************************************)
(* insert_yearly_mileage_factors                                           *)
(***************************************************************************)
\* df[["YEARLY_MILEAGE_FROM", "YEARLY_MILEAGE_TO"]].drop_duplicates()
yearly_mileages(df) == Unique([i \in 1..Len(df) |-> df[i].range])

\* df[(FROM == mileage_from) & (TO == mileage_to)]["FACTOR"].values[0]
mileage_factor(df, range) ==
    SelectSeq(df, LAMBDA r : r.range = range)[1].factor

\* mileage_exists with the two parameters passed in the wrong order
mileage_exists_swapped(tbl, range) ==
    \E i \in 1..Len(tbl) : /\ tbl[i].yearly_mileage_from = range[2]
                           /\ tbl[i].yearly_mileage_to = range[1]

\* SELECT id FROM yearly_mileage WHERE from = %s AND to = %s; fetchone()
mileage_exists(tbl, range) ==
    \E i \in 1..Len(tbl) : /\ tbl[i].yearly_mileage_from = range[1]
                           /\ tbl[i].yearly_mileage_to = range[2]

\* mileage_plan with an INSERT that does not depend on the existence check
mileage_plan_unchecked(d, df, range) ==
    <<Call("SELECT yearly_mileage", range),
      Call("INSERT yearly_mileage",
           <<range[1], range[2], mileage_factor(df, range)>>)>>

\* the statements of the loop body for one (from, to) range
mileage_plan(d, df, range) ==
    <<Call("SELECT yearly_mileage", range)>>
    \o (IF mileage_exists(d.yearly_mileage, range) THEN <<>>
        ELSE <<Call("INSERT yearly_mileage",
                    <<range[1], range[2], mileage_factor(df, range)>>)>>)

\* range_status with an inner except that re-raises
range_status_reraise(f) == IF f = 0 THEN "running" ELSE "raised"

\* the function's status after an iteration in which statement f raised
\* (f = 0: none): the inner `except Exception` logs and does not re-raise
range_status(f) == "running"

InMileage == pc \in {"insert_mileage", "test_mileage"}

\* one iteration of `for _, row in yearly_mileages.iterrows()`, with its own
\* try/except: a raising statement ends the iteration, not the loop
insert_yearly_mileage_factors_range ==
    /\ InMileage /\ status = "running"
    /\ idx <= Len(yearly_mileages(mileage_df))
    /\ LET plan == mileage_plan(db, mileage_df, yearly_mileages(mileage_df)[idx])
       IN \E f \in 0..Len(plan) :
            /\ db' = Execute(db, plan, f)
            /\ calls' = calls \o Executed(plan, f)
            /\ status' = range_status(f)
            /\ idx' = idx + 1
    /\ UNCHANGED <<pc, conn, cur, exiting, exit_code, committed, attempted,
                   failed, commits, ncalls, postcode_df, region_factors,
                   vehicle_df, mileage_df, repeated, csv, loaded>>

\* the loop is exhausted: "Import of yearly mileages done!"
insert_yearly_mileage_factors_done ==
    /\ InMileage /\ status = "running"
    /\ idx > Len(yearly_mileages(mileage_df))
    /\ status' = "returned"
    /\ UNCHANGED <<pc, conn, cur, exiting, exit_code, db, committed,
                   attempted, failed, commits, ncalls, idx, postcode_df,
                   region_factors, vehicle_df, mileage_df, calls, repeated,
                   csv, loaded>>

(***************************************************************************)
(* load_csv.  A cell of the postcode column is the sequence of its         *)
(* characters as astype(str) gives them; the empty sequence is a missing   *)
(* cell (NaN).  read_csv parses a column of digit strings as integers, so  *)
(* the digits drawn here are not 0: the text of such a cell is the text of *)
(* the file.  Region names are drawn already trimmed.                      *)
(***************************************************************************)
PostcodeLen == 5
ZfillWidth == 5
MinColumns == 7

Digits == {"1", "7"}
Chars == Digits \cup {" ", "x"}
Fields == SeqsUpTo(Chars, MaxLen)

RECURSIVE str_lstrip(_)
str_lstrip(s) ==
    IF s # <<>> /\ Head(s) = " " THEN str_lstrip(Tail(s)) ELSE s

RECURSIVE str_rstrip(_)
str_rstrip(s) ==
    IF s # <<>> /\ s[Len(s)] = " "
    THEN str_rstrip(SubSeq(s, 1, Len(s) - 1)) ELSE s

\* Series.str.strip()
str_strip(s) == str_rstrip(str_lstrip(s))

\* str_extract without the pattern: the whole cell is kept
str_extract_whole(s) == s

\* Series.str.extract(r"(\d{5})")[0]: the group of the leftmost match, five
\* consecutive digits wherever they stand; <<>> (NaN) when nothing matches
str_extract(s) ==
    LET matches == {i \in 1..(Len(s) - PostcodeLen + 1) :
                      \A k \in i..(i + PostcodeLen - 1) : s[k] \in Digits}
    IN IF matches = {} THEN <<>>
       ELSE LET i == CHOOSE i \in matches : \A j \in matches : i <= j
            IN SubSeq(s, i, i + PostcodeLen - 1)

RECURSIVE str_zfill(_, _)
\* Series.str.zfill(width)
str_zfill(s, width) ==
    IF Len(s) >= width THEN s ELSE str_zfill(<<"0">> \o s, width)

\* load_csv(path): the exception it raises ("none": it returns) and the df
\* it returns
load_csv_df(file) ==
    IF ~file.exists
    THEN [error |-> "FileNotFoundError", value |-> <<>>]
    ELSE IF file.rows = <<>>
    THEN [error |-> "EmptyDataError", value |-> <<>>]
    ELSE IF file.columns < MinColumns
    THEN [error |-> "ValueError", value |-> <<>>]
    ELSE LET present == SelectSeq(file.rows, LAMBDA r : r.postcode # <<>>)
             extracted == [i \in DOMAIN present |->
                 [region |-> present[i].region,
                  postcode |-> str_extract(str_strip(present[i].postcode))]]
             valid == SelectSeq(extracted, LAMBDA r : r.postcode # <<>>)
         IN [error |-> "none",
             value |-> [i \in DOMAIN valid |->
                 [region |-> valid[i].region,
                  postcode |-> str_zfill(valid[i].postcode, ZfillWidth)]]]

(***************************************************************************)
(* load_region_factors.  A file is its header (the column names, trimmed)  *)
(* and its data rows; a file without any line has no header.  A factor     *)
(* cell is the text of the file.                                           *)
(***************************************************************************)
required_columns == {"REGION1", "REGION_FACTOR"}

\* float(cell) for the cells that are numbers, in tenths
FloatOf == [c \in {"1.6", "1.1"} |-> IF c = "1.6" THEN 16 ELSE 11]

\* load_region_factors_error with the column check made before the
\* empty check
load_region_factors_error_columns_first(file) ==
    IF ~file.exists THEN "FileNotFoundError"
    ELSE IF file.header = {} THEN "EmptyDataError"
    ELSE IF ~(required_columns \subseteq file.header)
    THEN "ValueError: Missing required columns"
    ELSE IF file.rows = <<>> THEN "ValueError: File is empty"
    ELSE IF \E i \in DOMAIN file.rows :
                file.rows[i].REGION_FACTOR \notin DOMAIN FloatOf
    THEN "ValueError: could not convert string to float"
    ELSE "none"

\* the exception load_region_factors(path) raises, "none" when it returns:
\* the checks in the order of the code, the first that fails decides.
\* pd.read_csv raises EmptyDataError (a ValueError) on a file without lines.
load_region_factors_error(file) ==
    IF ~file.exists THEN "FileNotFoundError"
    ELSE IF file.header = {} THEN "EmptyDataError"
    ELSE IF file.rows = <<>> THEN "ValueError: File is empty"
    ELSE IF ~(required_columns \subseteq file.header)
    THEN "ValueError: Missing required columns"
    ELSE IF \E i \in DOMAIN file.rows :
                file.rows[i].REGION_FACTOR \notin DOMAIN FloatOf
    THEN "ValueError: could not convert string to float"
    ELSE "none"

\* load_region_factors(path): the exception and the dict returned;
\* dict(zip(...)) keeps the last factor of a region named twice
load_region_factors_dict(file) ==
    LET error == load_region_factors_error(file)
        names == {file.rows[i].REGION1 : i \in DOMAIN file.rows}
        last(region) == CHOOSE i \in DOMAIN file.rows :
                          /\ file.rows[i].REGION1 = region
                          /\ \A j \in DOMAIN file.rows :
                               file.rows[j].REGION1 = region => j <= i
    IN [error |-> error,
        value |-> IF error # "none" THEN <<>>
                  ELSE [region \in names |->
                           FloatOf[file.rows[last(region)].REGION_FACTOR]]]

(***************************************************************************)
(* load_yearly_milaege_factors.  A cell of the file is a number written    *)
(* without a decimal point (kind "int": -1, 20000), a number written with  *)
(* one (kind "float": 20000.0) or a text that is no number (kind "text").  *)
(* pd.read_csv gives a column one dtype for all its cells, and astype(str) *)
(* writes each cell as that dtype prints it.                               *)
(***************************************************************************)
Sentinel == 100000000

mileage_required_columns == {"YEARLY_MILEAGE_FROM", "YEARLY_MILEAGE_TO", "FACTOR"}

IntText(n) == [kind |-> "int", value |-> n]
FloatText(n) == [kind |-> "float", value |-> n]
OtherText == [kind |-> "text", value |-> 0]

\* the dtype pd.read_csv infers for a column: int64 when every cell is an
\* integer literal, float64 when every cell is a number, else object
column_dtype(cells) ==
    IF \E c \in cells : c.kind = "text" THEN "object"
    ELSE IF \E c \in cells : c.kind = "float" THEN "float64"
    ELSE "int64"

\* Series.astype(str) on one cell of a column of that dtype: -1 of a
\* float64 column is "-1.0"; a cell of an object column keeps its text
astype_str(cell, dtype) ==
    CASE dtype = "int64" -> IntText(cell.value)
      [] dtype = "float64" -> FloatText(cell.value)
      [] OTHER -> cell

\* Series.replace('-1', 100_000_000): the cells equal to the string '-1'
replace_sentinel(text) == IF text = IntText(-1) THEN IntText(Sentinel) ELSE text

\* pd.to_numeric(..., errors="coerce") of a column has a NaN
coerced_nan(cells) == \E c \in cells : c.kind = "text"

\* load_yearly_milaege_factors(path): the exception it raises ("none": it
\* returns) and the df it returns, rows [range, factor].  An
\* EmptyDataError of pd.read_csv is turned into a ValueError, and
\* astype(int) raises a ValueError on a NaN.
load_yearly_milaege_factors_df(file) ==
    LET column(name) == {file.rows[i][name] : i \in DOMAIN file.rows}
        to_dtype == column_dtype(column("YEARLY_MILEAGE_TO"))
        to(i) == replace_sentinel(
                     astype_str(file.rows[i].YEARLY_MILEAGE_TO, to_dtype))
        error ==
            IF ~file.exists THEN "FileNotFoundError"
            ELSE IF file.header = {} THEN "ValueError: CSV file is empty"
            ELSE IF file.rows = <<>> THEN "ValueError: File is empty"
            ELSE IF ~(mileage_required_columns \subseteq file.header)
            THEN "ValueError: Missing required columns"
            ELSE IF \/ coerced_nan(column("YEARLY_MILEAGE_FROM"))
                    \/ coerced_nan({to(i) : i \in DOMAIN file.rows})
                    \/ coerced_nan(column("FACTOR"))
            THEN "ValueError: cannot convert"
            ELSE "none"
    IN [error |-> error,
        value |-> IF error # "none" THEN <<>>
                  ELSE [i \in DOMAIN file.rows |->
                           [range |-> <<file.rows[i].YEARLY_MILEAGE_FROM.value,
                                        to(i).value>>,
                            factor |-> file.rows[i].FACTOR.value]]]

(***************************************************************************)
(* main.py: get_connection and the __main__ block                          *)
(***************************************************************************)
\* get_connection: psycopg2.connect succeeds, or raises and sys.exit(1) is
\* called; SystemExit is no Exception, so it passes `except Exception` and
\* reaches the finally clause
get_connection ==
    /\ pc = "connect"
    /\ \/ /\ conn' = "open" /\ db' = committed
          /\ pc' = "cursor" /\ UNCHANGED exiting
       \/ /\ exiting' = TRUE /\ pc' = "finally"
          /\ UNCHANGED <<conn, db>>
    /\ UNCHANGED <<cur, exit_code, committed, attempted, failed, commits,
                   ncalls, status, idx, postcode_df, region_factors,
                   vehicle_df, mileage_df, calls, repeated, csv, loaded>>

\* cur = conn.cursor(); an exception goes to the outer `except Exception`
conn_cursor ==
    /\ pc = "cursor"
    /\ \/ cur' = "open" /\ pc' = "load_mileage"
       \/ pc' = "finally" /\ UNCHANGED cur
    /\ UNCHANGED <<conn, exiting, exit_code, db, committed, attempted,
                   failed, commits, ncalls, status, idx, postcode_df,
                   region_factors, vehicle_df, mileage_df, calls, repeated,
                   csv, loaded>>

\* after_try without the per-category except: a failure goes to the outer
\* `except Exception`, past the commit
after_try_propagates(category, raised) ==
    IF raised THEN "finally"
    ELSE CASE category = "mileage" -> "load_vehicle"
           [] category = "vehicle" -> "load_regions"
           [] category = "postcodes" -> "commit"

\* after_try with the vehicle import nested in the mileage try block: a
\* mileage failure skips it
after_try_nested(category, raised) ==
    CASE category = "mileage" ->
           IF raised THEN "load_regions" ELSE "load_vehicle"
      [] category = "vehicle" -> "load_regions"
      [] category = "postcodes" -> "commit"

\* where the __main__ block goes on after the try block of a category,
\* whether the block ended normally or in its `except Exception`
after_try(category, raised) ==
    CASE category = "mileage" -> "load_vehicle"
      [] category = "vehicle" -> "load_regions"
      [] category = "postcodes" -> "commit"

\* first try block: load_yearly_milaege_factors raises, or returns a df and
\* insert_yearly_mileage_factors is called
load_yearly_milaege_factors ==
    /\ pc = "load_mileage"
    /\ attempted' = Append(attempted, "mileage")
    /\ \/ /\ pc' = after_try("mileage", TRUE)
          /\ failed' = failed \cup {"mileage"}
          /\ UNCHANGED <<mileage_df, status, idx, calls>>
       \/ /\ mileage_df' \in MileageDfs
          /\ pc' = "insert_mileage"
          /\ status' = "running" /\ idx' = 1 /\ calls' = <<>>
          /\ UNCHANGED failed
    /\ UNCHANGED <<conn, cur, exiting, exit_code, db, committed, commits,
                   ncalls, postcode_df, region_factors, vehicle_df,
                   repeated, csv, loaded>>

\* the first try block ends: the function returned, or raised into
\* `except Exception` ("Failed to import yearly mileage factors.")
end_yearly_mileage ==
    /\ pc = "insert_mileage" /\ status \in {"returned", "raised"}
    /\ pc' = after_try("mileage", status = "raised")
    /\ failed' = IF status = "raised" THEN failed \cup {"mileage"} ELSE failed
    /\ status' = "idle" /\ idx' = 1 /\ calls' = <<>> /\ mileage_df' = <<>>
    /\ UNCHANGED <<conn, cur, exiting, exit_code, db, committed, attempted,
                   commits, ncalls, postcode_df, region_factors, vehicle_df,
                   repeated, csv, loaded>>

\* second try block: load_vehicle_factors, then insert_vehicle_factors
load_vehicle_factors ==
    /\ pc = "load_vehicle"
    /\ attempted' = Append(attempted, "vehicle")
    /\ \/ /\ pc' = after_try("vehicle", TRUE)
          /\ failed' = failed \cup {"vehicle"}
          /\ UNCHANGED <<vehicle_df, status, idx, calls>>
       \/ /\ vehicle_df' \in VehicleDfs
          /\ pc' = "insert_vehicle"
          /\ status' = "running" /\ idx' = 1 /\ calls' = <<>>
          /\ UNCHANGED failed
    /\ UNCHANGED <<conn, cur, exiting, exit_code, db, committed, commits,
                   ncalls, postcode_df, region_factors, mileage_df,
                   repeated, csv, loaded>>

end_vehicle ==
    /\ pc = "insert_vehicle" /\ status \in {"returned", "raised"}
    /\ pc' = after_try("vehicle", status = "raised")
    /\ failed' = IF status = "raised" THEN failed \cup {"vehicle"} ELSE failed
    /\ status' = "idle" /\ idx' = 1 /\ calls' = <<>> /\ vehicle_df' = <<>>
    /\ UNCHANGED <<conn, cur, exiting, exit_code, db, committed, attempted,
                   commits, ncalls, postcode_df, region_factors, mileage_df,
                   repeated, csv, loaded>>

\* third try block: load_region_factors, load_csv, then insert_postcodes
load_region_factors ==
    /\ pc = "load_regions"
    /\ attempted' = Append(attempted, "postcodes")
    /\ \/ /\ pc' = after_try("postcodes", TRUE)
          /\ failed' = failed \cup {"postcodes"}
          /\ UNCHANGED region_factors
       \/ /\ region_factors' \in RegionFactorMaps
          /\ pc' = "load_csv"
          /\ UNCHANGED failed
    /\ UNCHANGED <<conn, cur, exiting, exit_code, db, committed, commits,
                   ncalls, status, idx, postcode_df, vehicle_df, mileage_df,
                   calls, repeated, csv, loaded>>

load_csv ==
    /\ pc = "load_csv"
    /\ \/ /\ pc' = after_try("postcodes", TRUE)
          /\ failed' = failed \cup {"postcodes"}
          /\ region_factors' = <<>>
          /\ UNCHANGED <<postcode_df, status, idx, calls>>
       \/ /\ postcode_df' \in PostcodeDfs
          /\ pc' = "insert_postcodes"
          /\ status' = "running" /\ idx' = 1 /\ calls' = <<>>
          /\ UNCHANGED <<region_factors, failed>>
    /\ UNCHANGED <<conn, cur, exiting, exit_code, db, committed, attempted,
                   commits, ncalls, vehicle_df, mileage_df, repeated,
                   csv, loaded>>

end_postcodes ==
    /\ pc = "insert_postcodes" /\ status \in {"returned", "raised"}
    /\ pc' = after_try("postcodes", status = "raised")
    /\ failed' = IF status = "raised" THEN failed \cup {"postcodes"} ELSE failed
    /\ status' = "idle" /\ idx' = 1 /\ calls' = <<>>
    /\ postcode_df' = <<>> /\ region_factors' = <<>>
    /\ UNCHANGED <<conn, cur, exiting, exit_code, db, committed, attempted,
                   commits, ncalls, vehicle_df, mileage_df, repeated,
                   csv, loaded>>

\* conn.commit(): makes the transaction's inserts durable, or raises into
\* the outer `except Exception`
conn_commit ==
    /\ pc = "commit"
    /\ commits' = commits + 1
    /\ \/ committed' = db
       \/ UNCHANGED committed
    /\ pc' = "finally"
    /\ UNCHANGED <<conn, cur, exiting, exit_code, db, attempted, failed,
                   ncalls, status, idx, postcode_df, region_factors,
                   vehicle_df, mileage_df, calls, repeated, csv, loaded>>

\* the connection's state after the finally clause's
\* `try: cur.close(); conn.close()`, where cur.close() raises (closes is
\* FALSE) or not: an unbound cur is a NameError, and any exception skips
\* conn.close()
conn_after_finally(c, k, closes) ==
    IF k = "open" /\ closes /\ c = "open" THEN "closed" ELSE c

\* process_exit_code with the SystemExit swallowed (a bare `except:`)
process_exit_code_swallowed(system_exit) == 0

\* the process's exit status: 1 when the SystemExit of sys.exit(1) is in
\* flight (no `except Exception` catches it), else 0
process_exit_code(system_exit) == IF system_exit THEN 1 ELSE 0

\* the finally clause, then the end of the process
finally_close ==
    /\ pc = "finally"
    /\ \E closes \in BOOLEAN :
         /\ cur' = IF cur = "open" /\ closes THEN "closed" ELSE cur
         /\ conn' = conn_after_finally(conn, cur, closes)
    /\ exit_code' = process_exit_code(exiting)
    /\ pc' = "exit"
    /\ UNCHANGED <<exiting, db, committed, attempted, failed, commits,
                   ncalls, status, idx, postcode_df, region_factors,
                   vehicle_df, mileage_df, calls, repeated, csv, loaded>>

Init ==
    /\ pc = "connect" /\ conn = "unbound" /\ cur = "unbound"
    /\ exiting = FALSE /\ exit_code = -1
    /\ db = EmptyDb /\ committed = EmptyDb
    /\ attempted = <<>> /\ failed = {} /\ commits = 0 /\ ncalls = 0
    /\ status = "idle" /\ idx = 1
    /\ postcode_df = <<>> /\ region_factors = <<>>
    /\ vehicle_df = <<>> /\ mileage_df = <<>>
    /\ calls = <<>> /\ repeated = FALSE
    /\ csv = <<>> /\ loaded = NotLoaded

Next ==
    \/ get_connection
    \/ conn_cursor
    \/ load_yearly_milaege_factors
    \/ insert_yearly_mileage_factors_range
    \/ insert_yearly_mileage_factors_done
    \/ end_yearly_mileage
    \/ load_vehicle_factors
    \/ insert_vehicle_factors_type
    \/ insert_vehicle_factors_done
    \/ end_vehicle
    \/ load_region_factors
    \/ load_csv
    \/ insert_postcodes_region
    \/ insert_postcodes_done
    \/ end_postcodes
    \/ conn_commit
    \/ finally_close

Spec == Init /\ [][Next]_vars

(***************************************************************************)
(* Direct calls of the import functions on one cursor, as the unit tests   *)
(* make them: a call with a fresh input, or (insert_postcodes,             *)
(* insert_vehicle_factors) the previous call made again with the same      *)
(* input.                                                                  *)
(***************************************************************************)
TestPcs == {"test_postcodes", "test_vehicle", "test_mileage"}

test_insert_postcodes ==
    /\ pc \in TestPcs /\ status = "idle" /\ ncalls < MaxCalls
    /\ pc' = "test_postcodes"
    /\ postcode_df' \in PostcodeDfs
    /\ region_factors' \in RegionFactorMaps
    /\ status' = "running" /\ idx' = 1 /\ calls' = <<>>
    /\ ncalls' = ncalls + 1 /\ repeated' = FALSE
    /\ vehicle_df' = <<>> /\ mileage_df' = <<>>
    /\ UNCHANGED <<conn, cur, exiting, exit_code, db, committed, attempted,
                   failed, commits, csv, loaded>>

test_insert_postcodes_again ==
    /\ pc = "test_postcodes" /\ status = "returned" /\ ncalls < MaxCalls
    /\ status' = "running" /\ idx' = 1 /\ calls' = <<>>
    /\ ncalls' = ncalls + 1 /\ repeated' = TRUE
    /\ UNCHANGED <<pc, conn, cur, exiting, exit_code, db, committed,
                   attempted, failed, commits, postcode_df, region_factors,
                   vehicle_df, mileage_df, csv, loaded>>

test_insert_vehicle_factors ==
    /\ pc \in TestPcs /\ status = "idle" /\ ncalls < MaxCalls
    /\ pc' = "test_vehicle"
    /\ vehicle_df' \in VehicleDfs
    /\ status' = "running" /\ idx' = 1 /\ calls' = <<>>
    /\ ncalls' = ncalls + 1 /\ repeated' = FALSE
    /\ postcode_df' = <<>> /\ region_factors' = <<>> /\ mileage_df' = <<>>
    /\ UNCHANGED <<conn, cur, exiting, exit_code, db, committed, attempted,
                   failed, commits, csv, loaded>>

test_insert_yearly_mileage_factors ==
    /\ pc \in TestPcs /\ status = "idle" /\ ncalls < MaxCalls
    /\ pc' = "test_mileage"
    /\ mileage_df' \in MileageDfs
    /\ status' = "running" /\ idx' = 1 /\ calls' = <<>>
    /\ ncalls' = ncalls + 1 /\ repeated' = FALSE
    /\ postcode_df' = <<>> /\ region_factors' = <<>> /\ vehicle_df' = <<>>
    /\ UNCHANGED <<conn, cur, exiting, exit_code, db, committed, attempted,
                   failed, commits, csv, loaded>>

\* insert_vehicle_factors called a second time with the same df, on the
\* tables as the first call left them when it returned
test_insert_vehicle_factors_again ==
    /\ pc = "test_vehicle" /\ status = "returned" /\ ncalls < MaxCalls
    /\ status' = "running" /\ idx' = 1 /\ calls' = <<>>
    /\ ncalls' = ncalls + 1 /\ repeated' = TRUE
    /\ UNCHANGED <<pc, conn, cur, exiting, exit_code, db, committed,
                   attempted, failed, commits, postcode_df, region_factors,
                   vehicle_df, mileage_df, csv, loaded>>

\* the call under test is over (it returned or raised): its arguments and
\* the record of its statements are dropped
test_end ==
    /\ pc \in TestPcs /\ status \in {"returned", "raised"}
    /\ status' = "idle" /\ idx' = 1 /\ calls' = <<>> /\ repeated' = FALSE
    /\ postcode_df' = <<>> /\ region_factors' = <<>>
    /\ vehicle_df' = <<>> /\ mileage_df' = <<>>
    /\ UNCHANGED <<pc, conn, cur, exiting, exit_code, db, committed,
                   attempted, failed, commits, ncalls, csv, loaded>>

\* a test's cursor: open, over empty tables
InitTest(p) ==
    /\ pc = p /\ conn = "open" /\ cur = "open"
    /\ exiting = FALSE /\ exit_code = -1
    /\ db = EmptyDb /\ committed = EmptyDb
    /\ attempted = <<>> /\ failed = {} /\ commits = 0 /\ ncalls = 0
    /\ status = "idle" /\ idx = 1
    /\ postcode_df = <<>> /\ region_factors = <<>>
    /\ vehicle_df = <<>> /\ mileage_df = <<>>
    /\ calls = <<>> /\ repeated = FALSE
    /\ csv = <<>> /\ loaded = NotLoaded

InitPostcodes == InitTest("test_postcodes")

NextPostcodes ==
    \/ test_insert_postcodes
    \/ test_insert_postcodes_again
    \/ insert_postcodes_region
    \/ insert_postcodes_done
    \/ test_end

\* insert_postcodes called repeatedly on one cursor
SpecPostcodes == InitPostcodes /\ [][NextPostcodes]_vars

NextCalls ==
    \/ test_insert_postcodes
    \/ test_insert_vehicle_factors
    \/ test_insert_yearly_mileage_factors
    \/ insert_postcodes_region
    \/ insert_postcodes_done
    \/ insert_vehicle_factors_type
    \/ insert_vehicle_factors_done
    \/ insert_yearly_mileage_factors_range
    \/ insert_yearly_mileage_factors_done
    \/ test_end

\* any sequence of calls of the three import functions on one cursor
SpecCalls == InitPostcodes /\ [][NextCalls]_vars

InitVehicle == InitTest("test_vehicle")

NextVehicle ==
    \/ test_insert_vehicle_factors
    \/ test_insert_vehicle_factors_again
    \/ insert_vehicle_factors_type
    \/ insert_vehicle_factors_done
    \/ test_end

\* insert_vehicle_factors called repeatedly on one cursor
SpecVehicle == InitVehicle /\ [][NextVehicle]_vars

InitModules == \E p \in TestPcs : InitTest(p)

NextModules ==
    \/ pc = "test_postcodes" /\ test_insert_postcodes
    \/ pc = "test_vehicle" /\ test_insert_vehicle_factors
    \/ pc = "test_mileage" /\ test_insert_yearly_mileage_factors
    \/ insert_postcodes_region
    \/ insert_postcodes_done
    \/ insert_vehicle_factors_type
    \/ insert_vehicle_factors_done
    \/ insert_yearly_mileage_factors_range
    \/ insert_yearly_mileage_factors_done
    \/ test_end

\* one of the three import functions called repeatedly, each time with a
\* fresh input, on one cursor: what a test module does with its function
SpecModules == InitModules /\ [][NextModules]_vars

(***************************************************************************)
(* Direct calls of the load functions on a file, as the unit tests make    *)
(* them.                                                                   *)
(***************************************************************************)
NoFile == [exists |-> FALSE, columns |-> 0, rows |-> <<>>]
EmptyFile == [exists |-> TRUE, columns |-> 0, rows |-> <<>>]

ColumnCounts == {2, 7}
SamplePostcodes == {<<"7", "1", "1", "7", "1">>, <<"x">>, <<>>}
SampleRows == [region : Regions, postcode : SamplePostcodes]

\* the postcode files: none, an empty one, files of sample rows with too
\* few or enough columns, and one-row files with any postcode cell
PostcodeCsvs ==
    {NoFile, EmptyFile}
    \cup {[exists |-> TRUE, columns |-> c, rows |-> rs] :
            c \in ColumnCounts, rs \in SeqsUpTo(SampleRows, MaxRows) \ {<<>>}}
    \cup {[exists |-> TRUE, columns |-> MinColumns,
           rows |-> <<[region |-> "Bayern", postcode |-> f]>>] : f \in Fields}

\* a test before its call of a load function
InitLoad(p) ==
    /\ pc = p /\ conn = "unbound" /\ cur = "unbound"
    /\ exiting = FALSE /\ exit_code = -1
    /\ db = EmptyDb /\ committed = EmptyDb
    /\ attempted = <<>> /\ failed = {} /\ commits = 0 /\ ncalls = 0
    /\ status = "idle" /\ idx = 1
    /\ postcode_df = <<>> /\ region_factors = <<>>
    /\ vehicle_df = <<>> /\ mileage_df = <<>>
    /\ calls = <<>> /\ repeated = FALSE
    /\ loaded = NotLoaded

test_load_csv ==
    /\ pc = "test_load_csv" /\ loaded.error = "pending"
    /\ loaded' = load_csv_df(csv)
    /\ UNCHANGED <<pc, conn, cur, exiting, exit_code, db, committed,
                   attempted, failed, commits, ncalls, status, idx,
                   postcode_df, region_factors, vehicle_df, mileage_df,
                   calls, repeated, csv>>

InitLoadCsv == InitLoad("test_load_csv") /\ csv \in PostcodeCsvs

NextLoadCsv == test_load_csv

\* load_csv called on a postcode file
SpecLoadCsv == InitLoadCsv /\ [][NextLoadCsv]_vars

NoRegionFile == [exists |-> FALSE, header |-> {}, rows |-> <<>>]
FactorCells == {"1.6", "1.1", "not_a_number"}
RegionFactorRows == [REGION1 : Regions, REGION_FACTOR : FactorCells]

\* the region-factor files: none, one without any line, and files with a
\* header of some columns and zero or more data rows
RegionFactorCsvs ==
    {NoRegionFile, [exists |-> TRUE, header |-> {}, rows |-> <<>>]}
    \cup {[exists |-> TRUE, header |-> h, rows |-> rs] :
            h \in (SUBSET (required_columns \cup {"REGION2"})) \ {{}},
            rs \in SeqsUpTo(RegionFactorRows, MaxRows)}

test_load_region_factors ==
    /\ pc = "test_load_region_factors" /\ loaded.error = "pending"
    /\ loaded' = load_region_factors_dict(csv)
    /\ UNCHANGED <<pc, conn, cur, exiting, exit_code, db, committed,
                   attempted, failed, commits, ncalls, status, idx,
                   postcode_df, region_factors, vehicle_df, mileage_df,
                   calls, repeated, csv>>

InitLoadRegionFactors ==
    InitLoad("test_load_region_factors") /\ csv \in RegionFactorCsvs

NextLoadRegionFactors == test_load_region_factors

\* load_region_factors called on a region-factor file
SpecLoadRegionFactors == InitLoadRegionFactors /\ [][NextLoadRegionFactors]_vars

NoMileageFile == [exists |-> FALSE, header |-> {}, rows |-> <<>>]
FromCells == {IntText(20001), OtherText}
ToCells == {IntText(-1), IntText(20000), FloatText(20000), OtherText}
FactorTexts == {FloatText(15), OtherText}
MileageCsvRows == [YEARLY_MILEAGE_FROM : FromCells, YEARLY_MILEAGE_TO : ToCells,
                   FACTOR : FactorTexts]

\* the mileage-factor files: none, one without any line, and files with
\* all columns or without FACTOR and zero or more data rows
MileageCsvs ==
    {NoMileageFile, [exists |-> TRUE, header |-> {}, rows |-> <<>>]}
    \cup {[exists |-> TRUE, header |-> h, rows |-> rs] :
            h \in {mileage_required_columns,
                   mileage_required_columns \ {"FACTOR"}},
            rs \in SeqsUpTo(MileageCsvRows, MaxRows)}

test_load_yearly_mileage_factors ==
    /\ pc = "test_load_mileage" /\ loaded.error = "pending"
    /\ loaded' = load_yearly_milaege_factors_df(csv)
    /\ UNCHANGED <<pc, conn, cur, exiting, exit_code, db, committed,
                   attempted, failed, commits, ncalls, status, idx,
                   postcode_df, region_factors, vehicle_df, mileage_df,
                   calls, repeated, csv>>

\* the df the load returned is passed to insert_yearly_mileage_factors, as
\* main.py does
test_insert_loaded_yearly_mileage_factors ==
    /\ pc = "test_load_mileage" /\ loaded.error = "none"
    /\ ncalls < MaxCalls
    /\ pc' = "test_mileage"
    /\ mileage_df' = loaded.value
    /\ conn' = "open" /\ cur' = "open"
    /\ status' = "running" /\ idx' = 1 /\ calls' = <<>>
    /\ ncalls' = ncalls + 1
    /\ UNCHANGED <<exiting, exit_code, db, committed, attempted, failed,
                   commits, postcode_df, region_factors, vehicle_df,
                   repeated, csv, loaded>>

InitLoadMileage == InitLoad("test_load_mileage") /\ csv \in MileageCsvs

NextLoadMileage ==
    \/ test_load_yearly_mileage_factors
    \/ test_insert_loaded_yearly_mileage_factors
    \/ insert_yearly_mileage_factors_range
    \/ insert_yearly_mileage_factors_done

\* load_yearly_milaege_factors called on a mileage-factor file, and
\* insert_yearly_mileage_factors on what it returned
SpecLoadMileage == InitLoadMileage /\ [][NextLoadMileage]_vars

(***************************************************************************)
(* Properties                                                              *)
(***************************************************************************)
Rows(tbl) == DOMAIN tbl
Stmts == DOMAIN calls
IsCall(i, stmt) == calls[i].stmt = stmt

\* C1: a call of insert_postcodes that repeats the previous call (same df and
\* region_factors, on the tables as that call left them when it returned)
\* executes no INSERT into regions and no INSERT into postcodes.
C1_Idempotent ==
    (InPostcodes /\ repeated) =>
        \A i \in Stmts : ~IsCall(i, "INSERT regions")
                         /\ ~IsCall(i, "INSERT postcodes")

\* a repeated call over two regions returned; the first call had inserted
\* both regions and both postcodes
C1_Witness ==
    /\ InPostcodes /\ repeated /\ status = "returned"
    /\ Len(postcode_df) = 2
    /\ postcode_df[1].region # postcode_df[2].region
    /\ postcode_df[1].postcode # postcode_df[2].postcode
    /\ Len(db.regions) = 2 /\ Len(db.postcodes) = 2
    /\ Len(calls) = 4

InDf(region, postcode) ==
    \E i \in DOMAIN postcode_df : /\ postcode_df[i].region = region
                                  /\ postcode_df[i].postcode = postcode
FirstRowOf(region) ==
    CHOOSE i \in DOMAIN postcode_df :
        /\ postcode_df[i].region = region
        /\ \A j \in 1..(i - 1) : postcode_df[j].region # region
\* the region with this postcode that comes first in first-seen order
FirstRegionWith(postcode) ==
    CHOOSE r \in Regions :
        /\ InDf(r, postcode)
        /\ \A r2 \in Regions : InDf(r2, postcode) => FirstRowOf(r) <= FirstRowOf(r2)

\* C2: within one call of insert_postcodes a postcode value is inserted at
\* most once, with the id of the first region (first-seen order) that has it
\* in df; when the call has returned, postcodes holds exactly one row for
\* every postcode of df.
C2_GlobalPostcodeUnique ==
    InPostcodes =>
        \A p \in Postcodes :
            /\ \A i, j \in Stmts :
                   ( /\ IsCall(i, "INSERT postcodes") /\ calls[i].args[2] = p
                     /\ IsCall(j, "INSERT postcodes") /\ calls[j].args[2] = p )
                   => i = j
            /\ \A i \in Stmts :
                   (IsCall(i, "INSERT postcodes") /\ calls[i].args[2] = p) =>
                       \E k \in Rows(db.regions) :
                           /\ db.regions[k].region = FirstRegionWith(p)
                           /\ db.regions[k].id = calls[i].args[1]
            /\ (status = "returned" /\ \E r \in Regions : InDf(r, p)) =>
                   Cardinality({k \in Rows(db.postcodes) :
                                    db.postcodes[k].postcode = p}) = 1

\* two regions share one postcode; the call returned having inserted both
\* regions and the postcode once, for the first region
C2_Witness ==
    /\ InPostcodes /\ status = "returned"
    /\ Len(postcode_df) = 2
    /\ postcode_df[1].region # postcode_df[2].region
    /\ postcode_df[1].postcode = postcode_df[2].postcode
    /\ Cardinality({i \in Stmts : IsCall(i, "INSERT regions")}) = 2
    /\ Cardinality({i \in Stmts : IsCall(i, "INSERT postcodes")}) = 1
    /\ db.postcodes[1].region_id = 1

\* C3: when insert_postcodes is over, every region of df has been processed
\* (its existence check was issued), whatever statement raised before.
C3_RegionIsolation ==
    (InPostcodes /\ status \in {"returned", "raised"}) =>
        \A r \in Regions :
            (\E p \in Postcodes : InDf(r, p)) =>
                \E i \in Stmts : IsCall(i, "SELECT regions") /\ calls[i].args = <<r>>

\* C10: every INSERT into regions carries the factor mapped to the region
\* name, or 1.0 when region_factors has no entry for it, and the row is
\* persisted with that factor; insert_postcodes raises only when a statement
\* raised.
C10_MissingMappingDefault ==
    InPostcodes =>
        /\ \A i \in Stmts :
               IsCall(i, "INSERT regions") =>
                   LET r == calls[i].args[1]
                       expected == IF r \in DOMAIN region_factors
                                   THEN region_factors[r] ELSE DefaultFactor
                   IN /\ calls[i].args[2] = expected
                      /\ calls[i].ok =>
                             \E k \in Rows(db.regions) :
                                 /\ db.regions[k].region = r
                                 /\ db.regions[k].region_factor = expected
        /\ status = "raised" => \E i \in Stmts : ~calls[i].ok

\* the call returned having inserted one region with its mapped factor and
\* one region, missing from region_factors, with 1.0
C10_Witness ==
    /\ InPostcodes /\ status = "returned"
    /\ \E i, j \in Stmts :
         /\ IsCall(i, "INSERT regions") /\ calls[i].ok
         /\ calls[i].args[1] \notin DOMAIN region_factors
         /\ calls[i].args[2] = DefaultFactor
         /\ IsCall(j, "INSERT regions") /\ calls[j].ok
         /\ calls[j].args[1] \in DOMAIN region_factors
         /\ calls[j].args[2] = region_factors[calls[j].args[1]]
         /\ calls[j].args[2] # DefaultFactor

\* the statements of the running call about one (from, to) range
AboutRange(i, range) ==
    \/ IsCall(i, "SELECT yearly_mileage") /\ calls[i].args = range
    \/ /\ IsCall(i, "INSERT yearly_mileage")
       /\ <<calls[i].args[1], calls[i].args[2]>> = range
HasRow(range) ==
    \E k \in Rows(db.yearly_mileage) :
        /\ db.yearly_mileage[k].yearly_mileage_from = range[1]
        /\ db.yearly_mileage[k].yearly_mileage_to = range[2]
InMileageDf(range) == \E i \in DOMAIN mileage_df : mileage_df[i].range = range

\* C4: insert_yearly_mileage_factors never raises because a statement
\* raised; when it has returned, every distinct range of df has had its
\* existence check issued, a range whose check raised has no INSERT, a range
\* one of whose statements raised has no successful INSERT, and every range
\* whose statements did not raise has a row in yearly_mileage.
C4_RangeIsolation ==
    InMileage =>
        /\ status # "raised"
        /\ status = "returned" =>
              \A r \in MileageRanges :
                  InMileageDf(r) =>
                      /\ \E i \in Stmts : /\ IsCall(i, "SELECT yearly_mileage")
                                          /\ calls[i].args = r
                      /\ (\E i \in Stmts : /\ IsCall(i, "SELECT yearly_mileage")
                                           /\ calls[i].args = r /\ ~calls[i].ok)
                            => ~\E j \in Stmts : /\ IsCall(j, "INSERT yearly_mileage")
                                                 /\ AboutRange(j, r)
                      /\ (\E i \in Stmts : AboutRange(i, r) /\ ~calls[i].ok)
                            => ~\E j \in Stmts : /\ IsCall(j, "INSERT yearly_mileage")
                                                 /\ AboutRange(j, r) /\ calls[j].ok
                      /\ (\A i \in Stmts : AboutRange(i, r) => calls[i].ok)
                            => HasRow(r)

\* the function returned after the existence check of the first of two
\* ranges raised: that range has no row, the other one was inserted
C4_Witness ==
    /\ pc = "insert_mileage" /\ status = "returned"
    /\ Len(mileage_df) = 2 /\ mileage_df[1].range # mileage_df[2].range
    /\ Len(calls) = 3
    /\ IsCall(1, "SELECT yearly_mileage") /\ ~calls[1].ok
    /\ calls[1].args = mileage_df[1].range
    /\ IsCall(3, "INSERT yearly_mileage") /\ calls[3].ok
    /\ ~HasRow(mileage_df[1].range) /\ HasRow(mileage_df[2].range)

Categories == <<"mileage", "vehicle", "postcodes">>
\* the cursor was created: the store session is established
SessionEstablished == cur # "unbound"

\* C5: the try blocks of the categories are entered at most once each, in
\* the order mileage, vehicle, postcodes; a category is entered only when the
\* ones before it were, failed or not; and when a run with an established
\* session reaches the commit, all three have been entered.
C5_CategoryOrder ==
    /\ Len(attempted) <= 3
    /\ attempted = SubSeq(Categories, 1, Len(attempted))
    /\ failed \subseteq {attempted[i] : i \in DOMAIN attempted}
    /\ (SessionEstablished /\ pc \in {"commit", "finally", "exit"})
           => attempted = Categories

\* all three categories failed, and the run is at the commit
C5_Witness ==
    /\ pc = "commit" /\ SessionEstablished
    /\ attempted = Categories
    /\ failed = {"mileage", "vehicle", "postcodes"}

\* C6: conn.commit() is issued at most once, only after all three categories
\* were attempted; a run with an established session has issued it exactly
\* once when the process ends, whichever categories failed; and a commit
\* that took effect made every insert of the transaction durable.
C6_SingleCommit ==
    /\ commits <= 1
    /\ commits = 1 => attempted = Categories /\ pc \in {"finally", "exit"}
    /\ (SessionEstablished /\ pc \in {"finally", "exit"}) => commits = 1
    /\ (commits = 1 /\ committed # EmptyDb) => committed = db

\* the mileage category failed, the other two inserted rows, and the one
\* commit made them durable
C6_Witness ==
    /\ pc = "exit" /\ commits = 1
    /\ failed = {"mileage"}
    /\ committed = db
    /\ Len(committed.yearly_mileage) = 0
    /\ Len(committed.vehicle) = 2 /\ Len(committed.postcodes) = 2

\* the connection could not be established
ConnectionFailed == conn = "unbound" /\ pc \in {"finally", "exit"}

\* C7: when the connection cannot be established, no category is attempted,
\* no statement is executed, no commit is issued and the process ends with
\* status 1; the process ends with a non-zero status only in that case.
C7_ConnectionFailure ==
    /\ ConnectionFailed =>
          /\ attempted = <<>> /\ commits = 0
          /\ calls = <<>> /\ db = EmptyDb /\ committed = EmptyDb
    /\ (ConnectionFailed /\ pc = "exit") => exit_code = 1
    /\ (pc = "exit" /\ ~ConnectionFailed) => exit_code = 0
    /\ pc # "exit" => exit_code = -1

\* the process ended with status 1 after the connection failed
C7_Witness ==
    /\ pc = "exit" /\ conn = "unbound" /\ exit_code = 1
    /\ attempted = <<>> /\ commits = 0

\* C8: when the process ends, a connection that was acquired is closed.
C8_ConnectionReleased ==
    (pc = "exit" /\ conn # "unbound") => conn = "closed"

\* C9: no two rows of regions share a region name, no two rows of vehicle a
\* vehicle_type, no two rows of yearly_mileage a (from, to) pair, and no two
\* rows of postcodes a postcode.
C9_UniqueKeys ==
    /\ \A i, j \in Rows(db.regions) :
           db.regions[i].region = db.regions[j].region => i = j
    /\ \A i, j \in Rows(db.vehicle) :
           db.vehicle[i].vehicle_type = db.vehicle[j].vehicle_type => i = j
    /\ \A i, j \in Rows(db.yearly_mileage) :
           ( /\ db.yearly_mileage[i].yearly_mileage_from
                    = db.yearly_mileage[j].yearly_mileage_from
             /\ db.yearly_mileage[i].yearly_mileage_to
                    = db.yearly_mileage[j].yearly_mileage_to ) => i = j
    /\ \A i, j \in Rows(db.postcodes) :
           db.postcodes[i].postcode = db.postcodes[j].postcode => i = j

\* a second call of insert_postcodes, whose df holds the same row twice,
\* returned without an INSERT: its region and its postcode were in the store
C9_Witness ==
    /\ pc = "test_postcodes" /\ status = "returned" /\ ncalls = 2
    /\ Len(postcode_df) = 2 /\ postcode_df[1] = postcode_df[2]
    /\ Len(calls) = 2
    /\ Len(db.regions) = 2 /\ Len(db.postcodes) = 2

\* the vehicle table as it was when the running call began: each successful
\* INSERT of the call appended one row
StartVehicle ==
    LET inserted == {i \in Stmts : IsCall(i, "INSERT vehicle") /\ calls[i].ok}
    IN SubSeq(db.vehicle, 1, Len(db.vehicle) - Cardinality(inserted))

InVehicleDf(vehicle_type) ==
    \E i \in DOMAIN vehicle_df : vehicle_df[i].vehicle_type = vehicle_type

\* C11: a call of insert_vehicle_factors that returned has executed exactly
\* one existence check (SELECT) for each distinct vehicle_type of its df and
\* none for any other type, and exactly one INSERT of (type, factor), with a
\* factor the df gives for that type, for each distinct type that was absent
\* from the vehicle table when the call began, and no INSERT for a type that
\* was present; a call that repeats the previous one executes no INSERT.
C11_InsertsExactlyMissing ==
    (InVehicle /\ status = "returned") =>
        /\ \A t \in VehicleTypes :
             LET checks == {i \in Stmts : /\ IsCall(i, "SELECT vehicle")
                                          /\ calls[i].args = <<t>>}
                 inserts == {i \in Stmts : /\ IsCall(i, "INSERT vehicle")
                                           /\ calls[i].args[1] = t}
                 absent == \A k \in Rows(StartVehicle) :
                              StartVehicle[k].vehicle_type # t
             IN /\ Cardinality(checks) = IF InVehicleDf(t) THEN 1 ELSE 0
                /\ Cardinality(inserts) =
                       IF InVehicleDf(t) /\ absent THEN 1 ELSE 0
                /\ \A i \in inserts :
                      /\ calls[i].ok
                      /\ \E r \in DOMAIN vehicle_df :
                            calls[i].args = <<t, vehicle_df[r].factor>>
                      /\ \E k \in Rows(db.vehicle) :
                            /\ db.vehicle[k].vehicle_type = t
                            /\ db.vehicle[k].vehicle_factor = calls[i].args[2]
        /\ repeated => \A i \in Stmts : ~IsCall(i, "INSERT vehicle")

\* a call on a table that holds one of its two types returned: two checks,
\* one INSERT
C11_Witness ==
    /\ InVehicle /\ status = "returned" /\ ~repeated
    /\ Len(StartVehicle) = 1 /\ Len(db.vehicle) = 2
    /\ Len(calls) = 3

\* a repeated call returned after checking two types and inserting nothing
C11_WitnessRepeated ==
    /\ InVehicle /\ status = "returned" /\ repeated
    /\ Len(calls) = 2 /\ Len(db.vehicle) = 2

LoadedCsv == pc = "test_load_csv" /\ loaded.error # "pending"

\* the first maximal run of digits of s that is exactly PostcodeLen long,
\* <<>> when s has none
FirstRunOfFive(s) ==
    LET IsDigit(k) == k \in 1..Len(s) /\ s[k] \in Digits
        starts == {i \in 1..Len(s) :
                     /\ \A k \in i..(i + PostcodeLen - 1) : IsDigit(k)
                     /\ ~IsDigit(i - 1) /\ ~IsDigit(i + PostcodeLen)}
    IN IF starts = {} THEN <<>>
       ELSE LET i == CHOOSE i \in starts : \A j \in starts : i <= j
            IN SubSeq(s, i, i + PostcodeLen - 1)

\* C12: when load_csv returns, its df holds, in file order, one row for each
\* row of the file whose postcode cell has a maximal run of exactly five
\* digits, with that (first) run as the postcode; a row whose digit runs are
\* all shorter or all longer than five is not in the df.
C12_ExactlyFiveDigits ==
    (LoadedCsv /\ loaded.error = "none") =>
        LET runs == [i \in DOMAIN csv.rows |->
                        [region |-> csv.rows[i].region,
                         postcode |-> FirstRunOfFive(csv.rows[i].postcode)]]
        IN loaded.value = SelectSeq(runs, LAMBDA r : r.postcode # <<>>)

LoadedRegionFactors == pc = "test_load_region_factors" /\ loaded.error # "pending"
FailedNotFound == loaded.error = "FileNotFoundError"
FailedEmpty == loaded.error \in {"EmptyDataError", "ValueError: File is empty"}
FailedMissingColumns == loaded.error = "ValueError: Missing required columns"
ZeroRows == csv.exists /\ csv.rows = <<>>
ColumnMissing == csv.exists /\ ~(required_columns \subseteq csv.header)

\* C13 as stated: load_region_factors fails with NotFound iff the path does
\* not exist, with Empty iff the file has zero data rows, and with missing
\* columns iff REGION1 or REGION_FACTOR is not in the header, whatever else
\* holds of the file.
C13_Classification_Original ==
    LoadedRegionFactors =>
        /\ FailedNotFound <=> ~csv.exists
        /\ FailedEmpty <=> ZeroRows
        /\ FailedMissingColumns <=> ColumnMissing

\* C13: load_region_factors fails with NotFound iff the path does not exist,
\* with Empty iff the file exists and has zero data rows, and with missing
\* columns iff the file exists, has a data row and REGION1 or REGION_FACTOR
\* is not in its header: of an empty file that also lacks a column, Empty is
\* reported.
C13_Classification ==
    LoadedRegionFactors =>
        /\ FailedNotFound <=> ~csv.exists
        /\ FailedEmpty <=> ZeroRows
        /\ FailedMissingColumns <=> (ColumnMissing /\ ~ZeroRows)

\* a file with a header that lacks REGION_FACTOR and with no data row was
\* loaded: the failure is Empty
C13_Witness ==
    /\ LoadedRegionFactors /\ ZeroRows /\ ColumnMissing
    /\ csv.header = {"REGION1"}
    /\ loaded.error = "ValueError: File is empty"

\* C14: when load_yearly_milaege_factors returns, row i of its df has
\* YEARLY_MILEAGE_TO = 100,000,000 if the TO cell of row i of the file is -1
\* and the value of that cell otherwise; insert_yearly_mileage_factors sends
\* these values to the store, so no INSERT carries -1 and no row of
\* yearly_mileage has yearly_mileage_to = -1.
C14_Sentinel ==
    (csv \in MileageCsvs /\ loaded.error = "none") =>
        /\ \A i \in DOMAIN csv.rows :
             loaded.value[i].range[2] =
                 IF csv.rows[i].YEARLY_MILEAGE_TO.value = -1 THEN Sentinel
                 ELSE csv.rows[i].YEARLY_MILEAGE_TO.value
        /\ \A i \in Stmts : IsCall(i, "INSERT yearly_mileage") =>
             /\ calls[i].args[2] # -1
             /\ \E r \in DOMAIN loaded.value :
                  loaded.value[r].range = <<calls[i].args[1], calls[i].args[2]>>
        /\ \A k \in Rows(db.yearly_mileage) :
             db.yearly_mileage[k].yearly_mileage_to # -1

\* s has five consecutive digits somewhere: a 5-digit run can be extracted
HasFiveDigits(s) ==
    \E i \in 1..Len(s) : \A k \in i..(i + PostcodeLen - 1) :
        k <= Len(s) /\ s[k] \in Digits

\* C15: on a file that exists, has a row and has at least 7 columns,
\* load_csv returns normally whatever the postcode cells are; its df holds
\* as many rows as the file has rows with an extractable 5-digit run (none,
\* if no row has one), each from such a row of the file, and every postcode
\* of the df is exactly five decimal digits.
C15_InvalidRowsDropped ==
    (LoadedCsv /\ csv.exists /\ csv.rows # <<>> /\ csv.columns >= MinColumns) =>
        /\ loaded.error = "none"
        /\ Len(loaded.value) =
               Cardinality({i \in DOMAIN csv.rows :
                              HasFiveDigits(csv.rows[i].postcode)})
        /\ \A k \in DOMAIN loaded.value :
             /\ Len(loaded.value[k].postcode) = PostcodeLen
             /\ \A j \in 1..PostcodeLen : loaded.value[k].postcode[j] \in Digits
             /\ \E i \in DOMAIN csv.rows :
                  /\ csv.rows[i].region = loaded.value[k].region
                  /\ HasFiveDigits(csv.rows[i].postcode)
                  /\ \E a \in 1..Len(csv.rows[i].postcode) :
                       loaded.value[k].postcode =
                           SubSeq(csv.rows[i].postcode, a, a + PostcodeLen - 1)

\* a file of two rows, neither with a 5-digit run, was loaded: the call
\* returned an empty df
C15_Witness ==
    /\ LoadedCsv /\ csv.columns >= MinColumns /\ Len(csv.rows) = 2
    /\ \A i \in DOMAIN csv.rows : /\ csv.rows[i].postcode # <<>>
                                  /\ ~HasFiveDigits(csv.rows[i].postcode)
    /\ loaded = [error |-> "none", value |-> <<>>]

\* table tbl as it was when the running call began: each successful stmt
\* of the call appended one row to it
StartOf(tbl, stmt) ==
    LET inserted == {i \in Stmts : IsCall(i, stmt) /\ calls[i].ok}
    IN SubSeq(tbl, 1, Len(tbl) - Cardinality(inserted))

\* every row of table s is a row of table t, at the same place
IsPrefix(s, t) == Len(s) <= Len(t) /\ \A k \in Rows(s) : t[k] = s[k]

\* the running call has a source record for a key that was stored, with
\* another factor, when the call began
StaleRegion(k) ==
    /\ InPostcodes /\ k \in Rows(StartOf(db.regions, "INSERT regions"))
    /\ \E r \in DOMAIN postcode_df : postcode_df[r].region = db.regions[k].region
    /\ factor_of(region_factors, db.regions[k].region) # db.regions[k].region_factor
StaleVehicle(k) ==
    /\ InVehicle /\ k \in Rows(StartVehicle)
    /\ \E r \in DOMAIN vehicle_df :
         /\ vehicle_df[r].vehicle_type = db.vehicle[k].vehicle_type
         /\ vehicle_df[r].factor # db.vehicle[k].vehicle_factor
StaleMileage(k) ==
    /\ InMileage
    /\ k \in Rows(StartOf(db.yearly_mileage, "INSERT yearly_mileage"))
    /\ \E r \in DOMAIN mileage_df :
         /\ mileage_df[r].range = <<db.yearly_mileage[k].yearly_mileage_from,
                                    db.yearly_mileage[k].yearly_mileage_to>>
         /\ mileage_df[r].factor # db.yearly_mileage[k].yearly_mileage_factor

\* no statement of the running call inserts a row for a key that was stored,
\* with another factor, when the call began
NoInsertForStale ==
    /\ \A k \in Rows(db.regions) : StaleRegion(k) =>
         \A i \in Stmts : ~(/\ IsCall(i, "INSERT regions")
                            /\ calls[i].args[1] = db.regions[k].region)
    /\ \A k \in Rows(db.vehicle) : StaleVehicle(k) =>
         \A i \in Stmts : ~(/\ IsCall(i, "INSERT vehicle")
                            /\ calls[i].args[1] = db.vehicle[k].vehicle_type)
    /\ \A k \in Rows(db.yearly_mileage) : StaleMileage(k) =>
         \A i \in Stmts :
            ~(/\ IsCall(i, "INSERT yearly_mileage")
              /\ calls[i].args[1] = db.yearly_mileage[k].yearly_mileage_from
              /\ calls[i].args[2] = db.yearly_mileage[k].yearly_mileage_to)

\* C16: no step of insert_postcodes, insert_vehicle_factors or
\* insert_yearly_mileage_factors changes or removes a stored row: after every
\* step each table still has all its rows, with the same id, key and factor,
\* at the same place; and a call whose source gives another factor for a
\* region, vehicle type or mileage range that is already stored inserts no
\* row for that key.
C16_NeverUpdated ==
    /\ [][/\ IsPrefix(db.regions, db'.regions)
          /\ IsPrefix(db.postcodes, db'.postcodes)
          /\ IsPrefix(db.vehicle, db'.vehicle)
          /\ IsPrefix(db.yearly_mileage, db'.yearly_mileage)]_vars
    /\ []NoInsertForStale

\* a call of insert_vehicle_factors whose df gives another factor for the one
\* stored vehicle type has returned after its one SELECT
C16_Witness ==
    /\ InVehicle /\ status = "returned"
    /\ \E k \in Rows(db.vehicle) : StaleVehicle(k)
    /\ Len(db.vehicle) = 1 /\ Len(calls) = 1

\* the first row of df that satisfies Has
FirstRow(df, Has(_)) ==
    CHOOSE r \in DOMAIN df : Has(df[r]) /\ \A q \in 1..(r - 1) : ~Has(df[q])

\* C17: when a vehicle_type, or a (from, to) pair, stands in several rows of
\* the df with different factors, the call sends at most one INSERT for that
\* key, and the INSERT carries the factor of the first of these rows.
C17_FirstOccurrenceWins ==
    /\ InVehicle =>
         \A i \in Stmts : IsCall(i, "INSERT vehicle") =>
            LET IsType(row) == row.vehicle_type = calls[i].args[1]
            IN /\ calls[i].args[2] = vehicle_df[FirstRow(vehicle_df, IsType)].factor
               /\ \A j \in Stmts :
                    (IsCall(j, "INSERT vehicle")
                     /\ calls[j].args[1] = calls[i].args[1]) => j = i
    /\ InMileage =>
         \A i \in Stmts : IsCall(i, "INSERT yearly_mileage") =>
            LET IsRange(row) == row.range = <<calls[i].args[1], calls[i].args[2]>>
            IN /\ calls[i].args[3] = mileage_df[FirstRow(mileage_df, IsRange)].factor
               /\ \A j \in Stmts :
                    (IsCall(j, "INSERT yearly_mileage")
                     /\ calls[j].args[1] = calls[i].args[1]
                     /\ calls[j].args[2] = calls[i].args[2]) => j = i

\* a df with one vehicle type in two rows with different factors was
\* reconciled: one SELECT, one INSERT with the first factor, one stored row
C17_Witness ==
    /\ InVehicle /\ status = "returned" /\ Len(vehicle_df) = 2
    /\ vehicle_df[1].vehicle_type = vehicle_df[2].vehicle_type
    /\ vehicle_df[1].factor # vehicle_df[2].factor
    /\ Len(calls) = 2 /\ IsCall(2, "INSERT vehicle")
    /\ calls[2].args[2] = vehicle_df[1].factor
    /\ Len(db.vehicle) = 1
    /\ db.vehicle[1].vehicle_factor = vehicle_df[1].factor

\* C18: when a statement raises while insert_vehicle_factors processes a
\* type, the function raises: the raising statement is the last one it
\* executes (no later type is checked or inserted), the rows it inserted
\* before stay in the vehicle table, which no step of the run shrinks, and a
\* commit that takes effect makes the vehicle table durable as it is, with
\* those rows.
C18_VehicleNoIsolation ==
    /\ [](InVehicle =>
            /\ \A i \in Stmts : ~calls[i].ok =>
                 status = "raised" /\ i = Len(calls)
            /\ \A i \in Stmts : (IsCall(i, "INSERT vehicle") /\ calls[i].ok) =>
                 \E k \in Rows(db.vehicle) :
                    /\ db.vehicle[k].vehicle_type = calls[i].args[1]
                    /\ db.vehicle[k].vehicle_factor = calls[i].args[2])
    /\ [][/\ IsPrefix(db.vehicle, db'.vehicle)
          /\ committed' # committed => committed'.vehicle = db.vehicle]_vars

\* the run is over, its vehicle import failed, and the row of the type that
\* was inserted before the failure is committed
C18_Witness ==
    /\ pc = "exit" /\ "vehicle" \in failed
    /\ Len(committed.vehicle) = 1 /\ committed.vehicle = db.vehicle

====
